---- MODULE Spec2Model ----
(***************************************************************************)
(* Model of nemo_skills/dataset/swe-bench:                                 *)
(*   create_artsiv_w_findings.py  build_lookup_streaming, merge_files      *)
(*   prepare_with_locations.py    extract_locations_from_problem_statement,*)
(*                                process_jsonl_file                       *)
(*                                                                         *)
(* JSON values are tagged records [type, v]; a Python dict is a record     *)
(* over a fixed set of field names in which the value Absent marks a key   *)
(* that is not in the dict.  A source file is revealed line by line as the *)
(* code iterates over it: the lines read so far are kept in `secondary`    *)
(* and `primary`.                                                          *)
(***************************************************************************)
EXTENDS Integers, Sequences, FiniteSets, TLC

VARIABLES
    pc,             \* position in merge_files / build_lookup_streaming
    err,            \* exception that ended the call and the function that raised it
    handles,        \* file handles currently open
    secondary,      \* lines of output.jsonl read so far by build_lookup_streaming
    lookup,         \* build_lookup_streaming: lookup
    primary,        \* lines of default.jsonl read so far by the merge loop
    fout_full,      \* lines written to artsiv_w_findings.jsonl
    fout_loc,       \* lines written to artsiv_w_locations.jsonl
    merged_count,
    found_locs,
    found_findings,
    \* extract_locations_from_problem_statement, applied twice
    epc,            \* "input", "extracted" or "again"
    stmt,           \* problem_statement, a sequence of characters
    clean,          \* clean_problem_statement of the first call
    locations,      \* locations of the first call
    clean2,         \* clean_problem_statement of the call on `clean`
    locations2,     \* locations of the call on `clean`
    \* process_jsonl_file
    ppc,            \* "idle", "reading", "done" or "failed"
    source_type,
    input,          \* content of input_file before the first call
    file,           \* content of input_file
    pos,            \* number of lines of input_file read by the loop
    updated_samples,
    run             \* 1: first call, 2: call on the file the first call wrote

mvars == <<pc, err, handles, secondary, lookup, primary, fout_full, fout_loc,
           merged_count, found_locs, found_findings>>
evars == <<epc, stmt, clean, locations, clean2, locations2>>
pvars == <<ppc, source_type, input, file, pos, updated_samples, run>>
vars == <<mvars, evars, pvars>>

----------------------------------------------------------------------------
(* Bounds *)

MaxSecondary == 3
MaxPrimary == 3

----------------------------------------------------------------------------
(* JSON values and Python dicts *)

Absent == [type |-> "absent", v |-> ""]
Null == [type |-> "null", v |-> ""]
Str(s) == [type |-> "str", v |-> s]
List(s) == [type |-> "list", v |-> s]

\* Python truthiness of a value obtained with dict.get: None, "" and [] are falsy.
TruthyAsPresent(x) == x.type \notin {"absent", "null"}
Truthy(x) ==
    /\ x.type \notin {"absent", "null"}
    /\ ~(x.type \in {"str", "list"} /\ x.v = "")

\* A list cannot be a dict key (TypeError: unhashable type).
Hashable(x) == x.type # "list"

\* dict.get(k): None for a missing key.
Get(rec, k) == IF rec[k] = Absent THEN Null ELSE rec[k]

EmptyDict ==
    [instance_id |-> Absent, locations |-> Absent, findings |-> Absent, text |-> Absent]

BlankLine == [kind |-> "blank", rec |-> EmptyDict]
BadLine == [kind |-> "bad", rec |-> EmptyDict]        \* not valid JSON
NonObjLine == [kind |-> "nonobj", rec |-> EmptyDict]  \* valid JSON, not an object
ObjLine(r) == [kind |-> "obj", rec |-> r]

\* Lines the secondary source (output.jsonl) is made of.
SecondaryRecs ==
    {[instance_id |-> Str("a"), locations |-> l, findings |-> f, text |-> Absent] :
        l \in {Absent, Null, List(""), List("1")}, f \in {Absent, Null, Str("F")}}
    \cup
    {[instance_id |-> i, locations |-> lf[1], findings |-> lf[2], text |-> Absent] :
        i \in {Absent, Str(""), Str("b"), List("k")},
        lf \in {<<Absent, Absent>>, <<List("2"), Str("G")>>}}

SecondaryLines == {BlankLine, BadLine, NonObjLine} \cup {ObjLine(r) : r \in SecondaryRecs}

\* Lines the primary source (default.jsonl) is made of.
PrimaryRecs ==
    {[instance_id |-> Str("a"), locations |-> l, findings |-> f, text |-> Str("x")] :
        l \in {Absent, List("9")}, f \in {Absent, Str("PF")}}
    \cup
    {[instance_id |-> Str("b"), locations |-> Absent, findings |-> Absent, text |-> Str("y")],
     [instance_id |-> Str("c"), locations |-> List("9"), findings |-> Str("PF"), text |-> Str("z")],
     [instance_id |-> Str(""), locations |-> Absent, findings |-> Str("PF"), text |-> Str("x")],
     [instance_id |-> Absent, locations |-> Absent, findings |-> Absent, text |-> Str("x")],
     [instance_id |-> List("k"), locations |-> Absent, findings |-> Absent, text |-> Str("x")]}

PrimaryLines == {BlankLine, BadLine, NonObjLine} \cup {ObjLine(r) : r \in PrimaryRecs}

----------------------------------------------------------------------------
(* build_lookup_streaming *)

EmptyLookup == [k \in {} |-> Null]

\* {"locations": rec.get("locations"), "findings": rec.get("findings")}
LookupEntry(rec) ==
    [locations |-> Get(rec, "locations"), findings |-> Get(rec, "findings")]

\* lookup[iid] = entry
LookupPutKeepFirst(lk, iid, entry) ==
    [k \in DOMAIN lk \cup {iid} |-> IF k \in DOMAIN lk THEN lk[k] ELSE entry]
LookupPut(lk, iid, entry) ==
    [k \in DOMAIN lk \cup {iid} |-> IF k = iid THEN entry ELSE lk[k]]

\* An exception leaves every `with` block on its way out: the handles the
\* blocks own are closed, the call ends.
NoError == [exc |-> "", in |-> ""]
RaiseLeak(e, fn, owned) ==
    /\ pc' = "raised"
    /\ err' = [exc |-> e, in |-> fn]
    /\ handles' = handles
Raise(e, fn, owned) ==
    /\ pc' = "raised"
    /\ err' = [exc |-> e, in |-> fn]
    /\ handles' = handles \ owned

\* with open(output_path, "rb") as f
LookupOpen ==
    /\ UNCHANGED <<evars, pvars>>
    /\ pc = "start"
    /\ pc' = "lookup"
    /\ handles' = handles \cup {"f"}
    /\ UNCHANGED <<err, secondary, lookup, primary, fout_full, fout_loc,
                   merged_count, found_locs, found_findings>>

\* One iteration of `for i, line in enumerate(f, 1)`.
LookupLine ==
    /\ UNCHANGED <<evars, pvars>>
    /\ pc = "lookup"
    /\ Len(secondary) < MaxSecondary
    /\ \E line \in SecondaryLines :
        /\ secondary' = Append(secondary, line)
        /\ LET iid == Get(line.rec, "instance_id") IN
           IF line.kind \in {"blank", "bad"}
           THEN UNCHANGED <<pc, err, handles, lookup>>
           ELSE IF line.kind = "nonobj"
           THEN Raise("AttributeError", "build_lookup_streaming", {"f"}) /\ UNCHANGED lookup
           ELSE IF ~Truthy(iid)
           THEN UNCHANGED <<pc, err, handles, lookup>>
           ELSE IF ~Hashable(iid)
           THEN Raise("TypeError", "build_lookup_streaming", {"f"}) /\ UNCHANGED lookup
           ELSE /\ lookup' = LookupPut(lookup, iid, LookupEntry(line.rec))
                /\ UNCHANGED <<pc, err, handles>>
    /\ UNCHANGED <<primary, fout_full, fout_loc, merged_count, found_locs, found_findings>>

\* End of the secondary source: the with block closes f, the lookup is returned.
LookupReturn ==
    /\ UNCHANGED <<evars, pvars>>
    /\ pc = "lookup"
    /\ pc' = "built"
    /\ handles' = handles \ {"f"}
    /\ UNCHANGED <<err, secondary, lookup, primary, fout_full, fout_loc,
                   merged_count, found_locs, found_findings>>

----------------------------------------------------------------------------
(* merge_files *)

MergeHandles == {"fin", "fout_full", "fout_loc"}

\* lookup.get(iid) followed by `if extra:`; an entry always holds its two
\* keys, so it is truthy whenever the key is in the lookup.
HasExtra(lk, iid) == iid \in DOMAIN lk

\* extra.get(field) is not None
AddsIfTruthy(lk, iid, field) == HasExtra(lk, iid) /\ Truthy(lk[iid][field])
Adds(lk, iid, field) == HasExtra(lk, iid) /\ lk[iid][field] # Null

\* The record after the overwrites of lines 91-98.
MergeRecord(rec, lk) ==
    LET iid == Get(rec, "instance_id") IN
    [rec EXCEPT
        !.locations = IF Adds(lk, iid, "locations") THEN lk[iid].locations ELSE @,
        !.findings = IF Adds(lk, iid, "findings") THEN lk[iid].findings ELSE @]

\* rec_no_findings = dict(rec); rec_no_findings.pop("findings", None)
LocationsOnlyNoPop(rec) == rec
LocationsOnly(rec) == [rec EXCEPT !.findings = Absent]

\* fout.write(orjson.dumps(rec)); fout.write(b"\n")
WriteLineFirst(sink, rec) == <<rec>> \o sink
WriteLine(sink, rec) == Append(sink, rec)

\* build_lookup_streaming has returned (its frame, and with it the lines it
\* read, is gone); the line-count pre-pass opens the primary source a first
\* time, outside any with block, and reads it to the end.  total_lines only
\* sizes the progress bar and is not kept.
CountLines ==
    /\ UNCHANGED <<evars, pvars>>
    /\ pc = "built"
    /\ pc' = "counted"
    /\ handles' = handles \cup {"prepass"}
    /\ secondary' = <<>>
    /\ UNCHANGED <<err, lookup, primary, fout_full, fout_loc,
                   merged_count, found_locs, found_findings>>

\* with open(default_path, "rb") as fin, open(.., "wb") as fout_full,
\*      open(.., "wb") as fout_loc
MergeOpen ==
    /\ UNCHANGED <<evars, pvars>>
    /\ pc = "counted"
    /\ pc' = "merge"
    /\ handles' = handles \cup MergeHandles
    /\ fout_full' = <<>>
    /\ fout_loc' = <<>>
    /\ UNCHANGED <<err, secondary, lookup, primary, merged_count, found_locs, found_findings>>

\* One iteration of `for line in fin`.
MergeLine ==
    /\ UNCHANGED <<evars, pvars>>
    /\ pc = "merge"
    /\ Len(primary) < MaxPrimary
    /\ \E line \in PrimaryLines :
        /\ primary' = Append(primary, line)
        /\ LET iid == Get(line.rec, "instance_id")
               rec == MergeRecord(line.rec, lookup)
           IN
           IF line.kind = "blank"
           THEN UNCHANGED <<pc, err, handles, fout_full, fout_loc,
                            merged_count, found_locs, found_findings>>
           ELSE IF line.kind = "bad"
           THEN /\ Raise("JSONDecodeError", "merge_files", MergeHandles)
                /\ UNCHANGED <<fout_full, fout_loc, merged_count, found_locs, found_findings>>
           ELSE IF line.kind = "nonobj"
           THEN /\ Raise("AttributeError", "merge_files", MergeHandles)
                /\ UNCHANGED <<fout_full, fout_loc, merged_count, found_locs, found_findings>>
           ELSE IF ~Truthy(iid)
           THEN UNCHANGED <<pc, err, handles, fout_full, fout_loc,
                            merged_count, found_locs, found_findings>>
           ELSE IF ~Hashable(iid)
           THEN /\ Raise("TypeError", "merge_files", MergeHandles)
                /\ UNCHANGED <<fout_full, fout_loc, merged_count, found_locs, found_findings>>
           ELSE /\ found_locs' =
                      IF Adds(lookup, iid, "locations") THEN found_locs + 1 ELSE found_locs
                /\ found_findings' =
                      IF Adds(lookup, iid, "findings") THEN found_findings + 1
                      ELSE found_findings
                /\ fout_full' = WriteLine(fout_full, rec)
                /\ fout_loc' = WriteLine(fout_loc, LocationsOnly(rec))
                /\ merged_count' = merged_count + 1
                /\ UNCHANGED <<pc, err, handles>>
    /\ UNCHANGED <<secondary, lookup>>

\* End of the primary source: the with block closes fin and both sinks.
MergeReturn ==
    /\ UNCHANGED <<evars, pvars>>
    /\ pc = "merge"
    /\ pc' = "done"
    /\ handles' = handles \ MergeHandles
    /\ UNCHANGED <<err, secondary, lookup, primary, fout_full, fout_loc,
                   merged_count, found_locs, found_findings>>

\* The handle of the pre-pass is closed only when the interpreter finalizes
\* the unreferenced file object: at once under reference counting, at some
\* later collection or not before the call ends otherwise.
Finalize ==
    /\ UNCHANGED <<evars, pvars>>
    /\ "prepass" \in handles
    /\ handles' = handles \ {"prepass"}
    /\ UNCHANGED <<pc, err, secondary, lookup, primary, fout_full, fout_loc,
                   merged_count, found_locs, found_findings>>

EIdle ==
    /\ epc = "idle"
    /\ stmt = <<>>
    /\ clean = <<>>
    /\ locations = <<>>
    /\ clean2 = <<>>
    /\ locations2 = <<>>

PIdle ==
    /\ ppc = "idle"
    /\ source_type = ""
    /\ input = <<>>
    /\ file = <<>>
    /\ pos = 0
    /\ updated_samples = <<>>
    /\ run = 0

MIdle ==
    /\ pc = "idle"
    /\ err = NoError
    /\ handles = {}
    /\ secondary = <<>>
    /\ lookup = EmptyLookup
    /\ primary = <<>>
    /\ fout_full = <<>>
    /\ fout_loc = <<>>
    /\ merged_count = 0
    /\ found_locs = 0
    /\ found_findings = 0

Init ==
    /\ EIdle
    /\ PIdle
    /\ pc = "start"
    /\ err = NoError
    /\ handles = {}
    /\ secondary = <<>>
    /\ lookup = EmptyLookup
    /\ primary = <<>>
    /\ fout_full = <<>>
    /\ fout_loc = <<>>
    /\ merged_count = 0
    /\ found_locs = 0
    /\ found_findings = 0

Next ==
    \/ LookupOpen
    \/ LookupLine
    \/ LookupReturn
    \/ CountLines
    \/ MergeOpen
    \/ MergeLine
    \/ MergeReturn
    \/ Finalize

Spec == Init /\ [][Next]_vars

----------------------------------------------------------------------------
(* Properties of build_lookup_streaming and merge_files *)

\* A line holding an object with a truthy instance_id, stated on the JSON value.
HasTruthyKey(l) ==
    /\ l.kind = "obj"
    /\ l.rec.instance_id \notin {Absent, Null, Str(""), List("")}

KeyedLines(lines) == SelectSeq(lines, HasTruthyKey)
KeysOf(recs) == [i \in DOMAIN recs |-> recs[i].instance_id]
LineKeys(lines) == [i \in DOMAIN lines |-> lines[i].rec.instance_id]
NullIfAbsent(x) == IF x = Absent THEN Null ELSE x

\* C1: at every point of the merge, line i of the locations-only sink is line i
\* of the with-findings sink without its `findings` key, and no line of the
\* locations-only sink has a `findings` key.
C1_DualProjection ==
    /\ Len(fout_loc) = Len(fout_full)
    /\ \A i \in DOMAIN fout_full :
        /\ fout_loc[i].findings = Absent
        /\ \A k \in {"instance_id", "locations", "text"} : fout_loc[i][k] = fout_full[i][k]

\* C1 witness: a record whose findings came from the primary record itself and
\* one whose findings came from the lookup have both been written.
C1_Witness ==
    /\ \E i \in DOMAIN fout_full : fout_full[i].findings = Str("PF")
    /\ \E i \in DOMAIN fout_full : fout_full[i].findings = Str("F")
    /\ \E i \in DOMAIN fout_full : fout_full[i].findings = Absent

\* C2: when merge_files completes, the keys of both sinks are the keys of the
\* primary lines holding a truthy instance_id, in line order.
C2_OrderPreserved ==
    pc = "done" =>
        /\ KeysOf(fout_full) = LineKeys(KeyedLines(primary))
        /\ KeysOf(fout_loc) = LineKeys(KeyedLines(primary))

\* C2 witness: a completed merge of a record missing from the lookup, a skipped
\* line and a record found in the lookup, in that order.
C2_Witness ==
    /\ pc = "done"
    /\ Len(primary) = 3
    /\ primary[1].rec.instance_id = Str("c")
    /\ ~HasTruthyKey(primary[2])
    /\ primary[3].rec.instance_id = Str("a")
    /\ Str("a") \in DOMAIN lookup
    /\ Len(fout_full) = 2

\* C3: for a written record whose key is in the lookup, locations and findings
\* each hold the entry's value when it is not null and the primary record's own
\* value (or absence) otherwise; instance_id and text are the primary record's.
C3_IndependentOverwrite ==
    \A i \in DOMAIN fout_full :
        LET orig == KeyedLines(primary)[i].rec
            out == fout_full[i]
            iid == orig.instance_id
        IN  /\ out.instance_id = orig.instance_id
            /\ out.text = orig.text
            /\ iid \in DOMAIN lookup =>
                \A k \in {"locations", "findings"} :
                    out[k] = IF lookup[iid][k] # Null THEN lookup[iid][k] ELSE orig[k]
            /\ iid \notin DOMAIN lookup => out = orig

\* C3 witness: the entry has an empty list of locations and null findings; the
\* empty list replaced the primary record's locations, the findings were kept.
C3_Witness ==
    /\ Str("a") \in DOMAIN lookup
    /\ lookup[Str("a")] = [locations |-> List(""), findings |-> Null]
    /\ Len(primary) >= 1
    /\ primary[1].kind = "obj"
    /\ primary[1].rec.instance_id = Str("a")
    /\ primary[1].rec.locations = List("9")
    /\ primary[1].rec.findings = Str("PF")
    /\ Len(fout_full) >= 1
    /\ fout_full[1].locations = List("")
    /\ fout_full[1].findings = Str("PF")

\* C4: the mapping build_lookup_streaming returns has exactly the truthy keys
\* seen, each with the locations and findings of the last line holding it.
C4_LastWins ==
    pc = "built" =>
        /\ DOMAIN lookup =
              {secondary[i].rec.instance_id : i \in {j \in DOMAIN secondary : HasTruthyKey(secondary[j])}}
        /\ \A i \in DOMAIN secondary :
              (/\ HasTruthyKey(secondary[i])
               /\ \A j \in DOMAIN secondary :
                     j > i => ~(HasTruthyKey(secondary[j])
                                /\ secondary[j].rec.instance_id = secondary[i].rec.instance_id))
              => lookup[secondary[i].rec.instance_id] =
                    [locations |-> NullIfAbsent(secondary[i].rec.locations),
                     findings |-> NullIfAbsent(secondary[i].rec.findings)]

\* C4 witness: two lines share a key; the later one has no locations and null
\* findings, and the returned entry holds neither value of the earlier line.
C4_Witness ==
    /\ pc = "built"
    /\ Len(secondary) = 3
    /\ secondary[1] = ObjLine([instance_id |-> Str("a"), locations |-> List("1"),
                               findings |-> Str("F"), text |-> Absent])
    /\ secondary[2].rec.instance_id = Str("b")
    /\ secondary[3] = ObjLine([instance_id |-> Str("a"), locations |-> Absent,
                               findings |-> Null, text |-> Absent])
    /\ lookup[Str("a")] = [locations |-> Null, findings |-> Null]
    /\ DOMAIN lookup = {Str("a"), Str("b")}

\* C5: a primary record without a truthy instance_id writes nothing, raises
\* nothing and is not counted: the counter of processed records is the length
\* of each sink and the number of keyed lines read, and the two other counters
\* never exceed it.
C5_KeylessSkipped ==
    /\ merged_count = Len(fout_full)
    /\ merged_count = Len(fout_loc)
    /\ found_locs <= merged_count
    /\ found_findings <= merged_count
    /\ pc \in {"merge", "done"} => merged_count = Len(KeyedLines(primary))
    /\ (pc = "raised" /\ err.in = "merge_files") =>
           LET last == primary[Len(primary)] IN ~(last.kind = "obj" /\ ~HasTruthyKey(last))

\* C5 witness: a completed merge that read a record without instance_id, a
\* record with an empty instance_id and one keyed record.
C5_Witness ==
    /\ pc = "done"
    /\ \E i \in DOMAIN primary :
          primary[i].kind = "obj" /\ primary[i].rec.instance_id = Absent
    /\ \E i \in DOMAIN primary :
          primary[i].kind = "obj" /\ primary[i].rec.instance_id = Str("")
    /\ merged_count = 1
    /\ found_locs = 1

\* C6: build_lookup_streaming never fails on the content of the secondary
\* source.
C6_LookupNeverFails == ~(pc = "raised" /\ err.in = "build_lookup_streaming")

\* C7: when a primary line fails to parse, the call has ended with that error,
\* the sinks are closed and both hold one line per keyed record that preceded
\* the malformed line, in order, and nothing for it.
C7_AbortConsistent ==
    (pc = "raised" /\ err = [exc |-> "JSONDecodeError", in |-> "merge_files"]) =>
        LET before == KeyedLines(SubSeq(primary, 1, Len(primary) - 1)) IN
        /\ primary[Len(primary)].kind = "bad"
        /\ handles \cap MergeHandles = {}
        /\ Len(fout_full) = Len(before)
        /\ Len(fout_loc) = Len(before)
        /\ \A i \in DOMAIN before :
              /\ fout_full[i].instance_id = before[i].rec.instance_id
              /\ fout_full[i].text = before[i].rec.text
              /\ fout_loc[i].instance_id = before[i].rec.instance_id
              /\ fout_loc[i].text = before[i].rec.text

\* C7 witness: the third primary line is malformed, two records were written.
C7_Witness ==
    /\ pc = "raised"
    /\ err = [exc |-> "JSONDecodeError", in |-> "merge_files"]
    /\ Len(primary) = 3
    /\ Len(fout_full) = 2
    /\ Len(fout_loc) = 2

\* C8: once the call has returned or raised, no file handle it opened is open.
C8_AllHandlesReleased == pc \in {"done", "raised"} => handles = {}

----------------------------------------------------------------------------
(* prepare_with_locations.py: extract_locations_from_problem_statement *)

MaxPieces == 5

\* Text is a sequence of characters; Bullet stands for U+2022.
Bullet == "bullet"
NL == "\n"
Marker == <<"-", "-", "-", " ", "E", "D", "I", "T", " ", "L", "O", "C", "A", "T",
            "I", "O", "N", "S", " ", "-", "-", "-">>
Dashes == <<"-", "-", "-">>
MarkerTail == <<" ", "E", "D", "I", "T", " ", "L", "O", "C", "A", "T",
                "I", "O", "N", "S", " ", "-", "-", "-">>
DigitVal == ("0" :> 0) @@ ("1" :> 1) @@ ("2" :> 2) @@ ("5" :> 5)

\* \s, and the characters str.strip removes.
IsSpace(c) == c \in {" ", NL, "\t"}
IsDigit(c) == c \in DOMAIN DigitVal
\* [^\n:]
NotColon(c) == c # ":" /\ c # NL

MinOf(S) == CHOOSE x \in S : \A y \in S : x <= y
MaxOf(S) == CHOOSE x \in S : \A y \in S : x >= y

StartsWithAt(s, p, t) ==
    /\ p + Len(t) - 1 <= Len(s)
    /\ \A i \in 1..Len(t) : s[p + i - 1] = t[i]

\* Positions of s holding white space, a digit, a character other than ':' and newline.
SpaceAt(s) == {q \in 1..Len(s) : IsSpace(s[q])}
DigitAt(s) == {q \in 1..Len(s) : IsDigit(s[q])}
NotColonAt(s) == {q \in 1..Len(s) : NotColon(s[q])}

\* End of a greedy run: the first position from p on that is not in cls
\* (Len(s)+1 if none).
RunEnd(s, p, cls) == MinOf({q \in p..(Len(s) + 1) : q \notin cls})

\* str.rstrip(), str.strip()
RStrip(s) ==
    LET keep == {i \in 1..Len(s) : ~IsSpace(s[i])} IN
    IF keep = {} THEN <<>> ELSE SubSeq(s, 1, MaxOf(keep))
Strip(s) ==
    LET keep == {i \in 1..Len(s) : ~IsSpace(s[i])} IN
    IF keep = {} THEN <<>> ELSE SubSeq(s, MinOf(keep), MaxOf(keep))

\* str.split('\n')
RECURSIVE SplitLines(_)
SplitLines(s) ==
    LET nls == {i \in 1..Len(s) : s[i] = NL} IN
    IF nls = {} THEN <<s>>
    ELSE <<SubSeq(s, 1, MinOf(nls) - 1)>> \o SplitLines(SubSeq(s, MinOf(nls) + 1, Len(s)))

\* int() of a run of digits
RECURSIVE ToInt(_)
ToInt(d) ==
    IF d = <<>> THEN 0 ELSE 10 * ToInt(SubSeq(d, 1, Len(d) - 1)) + DigitVal[d[Len(d)]]

\* '--- EDIT LOCATIONS ---\s*\n' at p: the greedy \s* runs over all the white
\* space after the marker and backs up to the last newline in it.
HeaderNewlines(s, p) ==
    LET a == p + Len(Marker) IN
    {q \in a..(RunEnd(s, a, SpaceAt(s)) - 1) : s[q] = NL}
HeaderAt(s, p) == StartsWithAt(s, p, Marker) /\ HeaderNewlines(s, p) # {}

\* re.search(pattern, problem_statement, re.DOTALL): the leftmost match, as
\* <<start, start of group 1, end of group 1, end>> in a one-element sequence,
\* or <<>> when there is none.  (.*?) stops at the first blank line or at \Z.
SearchSectionLast(s) ==
    LET starts == {p \in 1..Len(s) : HeaderAt(s, p)} IN
    IF starts = {} THEN <<>>
    ELSE LET p == MaxOf(starts)
             g == MaxOf(HeaderNewlines(s, p)) + 1
             e == MinOf({x \in g..(Len(s) + 1) :
                           \/ x = Len(s) + 1
                           \/ (x + 1 <= Len(s) /\ s[x] = NL /\ s[x + 1] = NL)})
         IN <<[start |-> p, gstart |-> g, gend |-> e,
               end |-> IF e = Len(s) + 1 THEN e ELSE e + 2]>>
SearchSection(s) ==
    LET starts == {p \in 1..Len(s) : HeaderAt(s, p)} IN
    IF starts = {} THEN <<>>
    ELSE LET p == MinOf(starts)
             g == MaxOf(HeaderNewlines(s, p)) + 1
             e == MinOf({x \in g..(Len(s) + 1) :
                           \/ x = Len(s) + 1
                           \/ (x + 1 <= Len(s) /\ s[x] = NL /\ s[x + 1] = NL)})
         IN <<[start |-> p, gstart |-> g, gend |-> e,
               end |-> IF e = Len(s) + 1 THEN e ELSE e + 2]>>

\* ':\s*L(\d+)-L(\d+)' at position c of line: <<start_line, end_line>> in a
\* one-element sequence, or <<>>.
LineRange(line, c) ==
    IF ~(c <= Len(line) /\ line[c] = ":") THEN <<>>
    ELSE LET l1 == RunEnd(line, c + 1, SpaceAt(line))
             d1 == l1 + 1
             e1 == RunEnd(line, d1, DigitAt(line))
             d2 == e1 + 2
             e2 == RunEnd(line, d2, DigitAt(line))
         IN IF /\ l1 <= Len(line) /\ line[l1] = "L"
               /\ e1 > d1
               /\ e1 + 1 <= Len(line) /\ line[e1] = "-" /\ line[e1 + 1] = "L"
               /\ e2 > d2
            THEN <<<<ToInt(SubSeq(line, d1, e1 - 1)), ToInt(SubSeq(line, d2, e2 - 1))>>>>
            ELSE <<>>

\* re.search(location_pattern, line) on a stripped line, and the dict built
\* from it: a one-element sequence, or <<>> when nothing matches.  The match
\* starts at the first bullet followed by a character other than ':'; group 1
\* is the longest run without ':' after the white space, or the last white
\* space character when that run is empty.
ParseLocation(line) ==
    LET bs == {b \in 1..Len(line) :
                 line[b] = Bullet /\ b + 1 <= Len(line) /\ NotColon(line[b + 1])} IN
    IF bs = {} THEN <<>>
    ELSE LET b == MinOf(bs)
             w == RunEnd(line, b + 1, SpaceAt(line))
             g == IF w <= Len(line) /\ NotColon(line[w]) THEN w ELSE w - 1
             c == RunEnd(line, g, NotColonAt(line))
             r == LineRange(line, c)
         IN <<[file_path |-> Strip(SubSeq(line, g, c - 1)),
               start_line |-> IF r = <<>> THEN <<>> ELSE <<r[1][1]>>,
               end_line |-> IF r = <<>> THEN <<>> ELSE <<r[1][2]>>]>>

\* The loop of lines 40-55 over locations_text.split('\n').
RECURSIVE ParseLocations(_)
ParseLocations(lines) ==
    IF lines = <<>> THEN <<>>
    ELSE LET line == Strip(Head(lines)) IN
         (IF line = <<>> THEN <<>> ELSE ParseLocation(line)) \o ParseLocations(Tail(lines))

\* clean_problem_statement = problem_statement[:match.start()].rstrip()
CleanStatement(s, m) == RStrip(SubSeq(s, 1, m.start - 1))

extract_locations_from_problem_statement(s) ==
    LET found == SearchSection(s) IN
    IF found = <<>> THEN [clean |-> s, locations |-> <<>>]
    ELSE LET m == found[1] IN
         [clean |-> CleanStatement(s, m),
          locations |-> ParseLocations(SplitLines(SubSeq(s, m.gstart, m.gend - 1)))]

\* The pieces problem statements are put together from.
Pieces ==
    {Marker, Dashes, MarkerTail, <<NL>>, <<" ">>, <<"x">>,
     <<Bullet, "a", ":", "L", "1", "-", "L", "2", "5">>}

RECURSIVE Concat(_)
Concat(ps) == IF ps = <<>> THEN <<>> ELSE Head(ps) \o Concat(Tail(ps))

Statements == {Concat(ps) : ps \in UNION {[1..n -> Pieces] : n \in 0..MaxPieces}}

EInit ==
    /\ MIdle
    /\ PIdle
    /\ epc = "input"
    /\ stmt \in Statements
    /\ clean = <<>>
    /\ locations = <<>>
    /\ clean2 = <<>>
    /\ locations2 = <<>>

\* clean_problem_statement, locations = extract_locations_from_problem_statement(stmt)
EExtract ==
    /\ epc = "input"
    /\ epc' = "extracted"
    /\ clean' = extract_locations_from_problem_statement(stmt).clean
    /\ locations' = extract_locations_from_problem_statement(stmt).locations
    /\ UNCHANGED <<stmt, clean2, locations2>>
    /\ UNCHANGED <<mvars, pvars>>

\* The same call on the cleaned statement.
EExtractAgain ==
    /\ epc = "extracted"
    /\ epc' = "again"
    /\ clean2' = extract_locations_from_problem_statement(clean).clean
    /\ locations2' = extract_locations_from_problem_statement(clean).locations
    /\ UNCHANGED <<stmt, clean, locations>>
    /\ UNCHANGED <<mvars, pvars>>

ENext ==
    \/ EExtract
    \/ EExtractAgain

SpecExtract == EInit /\ [][ENext]_vars

\* C9: extraction of the cleaned statement returns it unchanged, with no
\* locations.
C9_Idempotent == epc = "again" => (clean2 = clean /\ locations2 = <<>>)

\* C9 witness: a statement with text before a marker section holding one entry
\* has been extracted twice.
C9_Witness ==
    /\ epc = "again"
    /\ clean = <<"x">>
    /\ locations = <<[file_path |-> <<"a">>, start_line |-> <<1>>, end_line |-> <<25>>]>>
    /\ Len(stmt) > Len(Marker) + 10

----------------------------------------------------------------------------
(* prepare_with_locations.py: process_jsonl_file *)

MaxFile == 3

\* Values of a sample's problem_statement and edit_locations keys.
PAbsent == [type |-> "absent", v |-> <<>>]
PNull == [type |-> "null", v |-> <<>>]
Text(s) == [type |-> "str", v |-> s]
NoEdit == [type |-> "absent", reasoning |-> "", locations |-> <<>>]
EditLocations(r, locs) == [type |-> "obj", reasoning |-> r, locations |-> locs]

\* reasoning_map.get(source_type, "Locations provided")
Reasoning(st) ==
    IF st \in {"ground_truth", "ground_truth_wo_lines"} THEN "Ground truth locations provided"
    ELSE IF st = "artsiv" THEN "Artsiv predicted locations"
    ELSE "Locations provided"

SourceTypes == {"artsiv", "unknown"}

Entry == <<Bullet, " ", "a", ".", "p", "y", ":", " ", "L", "1", "-", "L", "5">>
EntryNoLines == <<Bullet, " ", "b", ".", "p", "y">>

\* Problem statements of the samples: no section; the section of the spec's
\* example; a section without entries; two sections.
SampleStatements ==
    {<<"f", "i", "x">>,
     <<"f", "i", "x", NL, NL>> \o Marker \o <<NL>> \o Entry \o <<NL>> \o EntryNoLines,
     <<"f", "i", "x", NL>> \o Marker \o <<NL>> \o <<"n", "o", "n", "e">>,
     <<"x", " ">> \o Marker \o <<NL>> \o Entry \o <<NL, NL>> \o Marker \o <<NL>> \o EntryNoLines}

OldEdit ==
    EditLocations("Old", <<[file_path |-> <<"o">>, start_line |-> <<>>, end_line |-> <<>>]>>)

\* Samples "p" come without edit_locations, samples "q" with a stale one.
PrepSamples ==
    [id : {"p"},
     problem_statement : {PAbsent, PNull} \cup {Text(t) : t \in SampleStatements},
     edit_locations : {NoEdit}]
    \cup
    [id : {"q"},
     problem_statement : {Text(t) : t \in SampleStatements},
     edit_locations : {OldEdit}]

EmptySample == [id |-> "", problem_statement |-> PAbsent, edit_locations |-> NoEdit]

PrepLines ==
    {[kind |-> k, rec |-> EmptySample] : k \in {"blank", "bad", "nonobj"}}
    \cup {[kind |-> "obj", rec |-> r] : r \in PrepSamples}

Files == UNION {[1..n -> PrepLines] : n \in 0..MaxFile}

\* sample.get('problem_statement', '')
StatementOf(sample) ==
    IF sample.problem_statement = PAbsent THEN Text(<<>>) ELSE sample.problem_statement

\* Lines 89-102 on a sample whose problem_statement is a string.
ProcessSampleKeepOld(sample, reasoning) ==
    LET r == extract_locations_from_problem_statement(StatementOf(sample).v) IN
    [sample EXCEPT
        !.problem_statement = Text(r.clean),
        !.edit_locations =
            IF r.locations # <<>> THEN EditLocations(reasoning, r.locations) ELSE @]
ProcessSample(sample, reasoning) ==
    LET r == extract_locations_from_problem_statement(StatementOf(sample).v) IN
    [sample EXCEPT
        !.problem_statement = Text(r.clean),
        !.edit_locations =
            IF r.locations # <<>> THEN EditLocations(reasoning, r.locations) ELSE NoEdit]

\* f.write(json.dumps(sample, ensure_ascii=False) + '\n'): a line that parses
\* back to the sample.
DumpLine(sample) == [kind |-> "obj", rec |-> sample]

RECURSIVE DumpLines(_)
DumpLines(samples) ==
    IF samples = <<>> THEN <<>> ELSE <<DumpLine(Head(samples))>> \o DumpLines(Tail(samples))

PInit ==
    /\ MIdle
    /\ EIdle
    /\ ppc = "reading"
    /\ run = 1
    /\ source_type \in SourceTypes
    /\ file \in Files
    /\ input = file
    /\ pos = 0
    /\ updated_samples = <<>>

\* One iteration of `for line_num, line in enumerate(f, 1)`.  Only
\* json.JSONDecodeError is caught: the AttributeError of a non-dict sample and
\* the TypeError of re.search on a non-string end the call, the file unwritten.
PrepLine ==
    /\ ppc = "reading"
    /\ pos < Len(file)
    /\ pos' = pos + 1
    /\ LET line == file[pos + 1] IN
       IF line.kind \in {"blank", "bad"}
       THEN UNCHANGED <<ppc, updated_samples>>
       ELSE IF line.kind = "nonobj" \/ StatementOf(line.rec).type # "str"
       THEN ppc' = "failed" /\ UNCHANGED updated_samples
       ELSE /\ updated_samples' =
                  Append(updated_samples, ProcessSample(line.rec, Reasoning(source_type)))
            /\ UNCHANGED ppc
    /\ UNCHANGED <<source_type, input, file, run>>
    /\ UNCHANGED <<mvars, evars>>

\* with open(output_file, 'w'): the samples are written back over the input.
PrepWrite ==
    /\ ppc = "reading"
    /\ pos = Len(file)
    /\ file' = DumpLines(updated_samples)
    /\ ppc' = "done"
    /\ UNCHANGED <<source_type, input, pos, updated_samples, run>>
    /\ UNCHANGED <<mvars, evars>>

\* process_jsonl_file is called again on the file it wrote.
PrepAgain ==
    /\ ppc = "done"
    /\ run = 1
    /\ run' = 2
    /\ ppc' = "reading"
    /\ pos' = 0
    /\ updated_samples' = <<>>
    /\ UNCHANGED <<source_type, input, file>>
    /\ UNCHANGED <<mvars, evars>>

PNext ==
    \/ PrepLine
    \/ PrepWrite
    \/ PrepAgain

SpecPrepare == PInit /\ [][PNext]_vars

IsObjLine(l) == l.kind = "obj"

\* C10: after the rewrite the file holds the parseable input records in input
\* order, a record has edit_locations exactly when its input problem_statement
\* yields a location, and a second call on the written file ends with no
\* record holding edit_locations.
C10_EditLocationsIff ==
    LET recs == SelectSeq(input, IsObjLine) IN
    /\ ppc = "done" =>
        /\ Len(file) = Len(recs)
        /\ \A i \in DOMAIN file :
              /\ file[i].kind = "obj"
              /\ file[i].rec.id = recs[i].rec.id
    /\ (ppc = "done" /\ run = 1) =>
        \A i \in DOMAIN file :
            (file[i].rec.edit_locations.type = "obj") <=>
                (extract_locations_from_problem_statement(
                     StatementOf(recs[i].rec).v).locations # <<>>)
    /\ run = 2 => ppc # "failed"
    /\ (ppc = "done" /\ run = 2) =>
        \A i \in DOMAIN file : file[i].rec.edit_locations = NoEdit

\* C10 witness: the input held a record with a section and a record with a
\* stale edit_locations and no section, around a malformed line; the file has
\* been rewritten twice.
C10_Witness ==
    /\ ppc = "done"
    /\ run = 2
    /\ Len(input) = 3
    /\ input[1].kind = "obj"
    /\ extract_locations_from_problem_statement(
           StatementOf(input[1].rec).v).locations # <<>>
    /\ input[2].kind = "bad"
    /\ input[3].kind = "obj"
    /\ input[3].rec.edit_locations.type = "obj"
    /\ input[3].rec.problem_statement = Text(<<"f", "i", "x">>)
    /\ Len(file) = 2

====
